---- MODULE Spec2Model ----
(***************************************************************************)
(* Calendar processing service (calendar_processor.py).                    *)
(*                                                                         *)
(* Time is counted in slots of 30 minutes.  An instant is the number of    *)
(* slots since 00:00 UTC of day 0; a wall-clock reading is a number of     *)
(* slots since 00:00 of day 0 on that clock.  The configured zone is the   *)
(* default, Europe/London, over a window of days that contains the autumn  *)
(* change from +01:00 to +00:00 (at 01:00 UTC of day 1).                   *)
(*                                                                         *)
(* Python values:                                                          *)
(*   date                 [kind |-> "date",  wall |-> first slot of the    *)
(*                         day, off |-> 0]                                 *)
(*   datetime with tzinfo [kind |-> "aware", wall, off] (off: the fixed    *)
(*                         utcoffset its tzinfo gives, in slots)           *)
(*   datetime, no tzinfo  [kind |-> "naive", wall, off |-> 0]              *)
(*   str from isoformat() <<day, time of day, offset>>: the three fields   *)
(*                         of "YYYY-MM-DDTHH:MM:SS+HH:MM" in the order the *)
(*                         characters compare                              *)
(*   None / [] / [e]      <<>> and <<e>>                                   *)
(***************************************************************************)
EXTENDS Integers, Sequences, FiniteSets, TLC

VARIABLES
    host,        \* utcoffset of the machine's local zone (what astimezone assumes for a naive value)
    component,   \* NormSpec: the VEVENT handed to _process_event
    target_date, \* NormSpec: the target_date argument
    ndone,       \* NormSpec: which of the three functions have been applied
    event_date,  \* NormSpec: result of _get_event_date(dtstart.dt)
    start_iso,   \* NormSpec: result of _format_datetime(dtstart.dt)
    result,      \* NormSpec: result of _process_event
    feed,        \* what each configured URL serves: a sequence of VEVENTs
    now,         \* the wall clock, as a UTC instant
    pc,          \* main: "schedule", "startup", "in_startup", "pending", "in_job", "sleep"
    next_run,    \* schedule: when the job is next due
    active,      \* number of executions of process_calendars in progress
    ppc,         \* process_calendars: "idle", "fetch" (top of the loop), "wait" (inside urlopen)
    i,           \* process_calendars: index of the feed the loop is at
    server,      \* what each URL's server does with a request
    all_events,  \* process_calendars: the accumulator
    file,        \* the output file on disk
    raised,      \* an exception left process_calendars
    log,         \* logger.error lines of the pass
    pass,        \* history of the pass in progress or last finished: the file before it,
                 \* each feed's outcome and the date it was parsed under, the list before
                 \* the sort, the outcome of the write step
    prev         \* history of the pass finished before that one

nvars == <<host, component, target_date, ndone, event_date, start_iso, result>>
svars == <<feed, server, now, pc, next_run, active, ppc, i, all_events, file, raised, log, pass, prev>>
vars == <<nvars, svars>>

----------------------------------------------------------------------------
(* Bounds *)

\* days 0..MaxDay are the dates a raw value or a target date can name
MaxDay == 2
\* number of configured feeds
NumFeeds == 2
\* last instant the wall clock reaches (it starts at NowStart)
MaxNow == 46

(* Time base: one slot is thirty minutes *)
ThirtyMinutes == 1
OneHour == 2 * ThirtyMinutes
SlotsPerDay == 24 * OneHour

(* Europe/London around the autumn change: +01:00 until 01:00 UTC of day 1 *)
SummerOffset == OneHour
Transition == SlotsPerDay + OneHour

\* the service starts half an hour before midnight of day 1 in the zone
NowStart == SlotsPerDay - SummerOffset - ThirtyMinutes
\* CALENDAR_FETCH_INTERVAL_MINUTES, here 30 minutes
Interval == 1

Days == 0..MaxDay
Walls == 0..((MaxDay + 1) * SlotsPerDay - 1)
HostOffsets == {-10, 0, 2}
SourceOffsets == {-10, 0, 2}

PyDate(d) == [kind |-> "date", wall |-> d * SlotsPerDay, off |-> 0]
Aware(w, o) == [kind |-> "aware", wall |-> w, off |-> o]
Naive(w) == [kind |-> "naive", wall |-> w, off |-> 0]

\* hasattr(dt, 'astimezone') and hasattr(dt, 'date'): true of every datetime,
\* with or without tzinfo, false of a date
hasattr_astimezone(dt) == dt.kind \in {"aware", "naive"}
hasattr_date(dt) == dt.kind \in {"aware", "naive"}

\* utcoffset of self.timezone at a UTC instant
TargetOffset(u) == IF u < Transition THEN SummerOffset ELSE 0

\* the instant a datetime denotes for datetime.astimezone: its own offset when
\* it has tzinfo, the system local zone when it is naive
InstantOf(dt) == IF dt.kind = "aware" THEN dt.wall - dt.off ELSE dt.wall - host

\* dt.astimezone(self.timezone): the wall-clock reading and offset in the zone
astimezone(dt) ==
    LET u == InstantOf(dt) IN [wall |-> u + TargetOffset(u), off |-> TargetOffset(u)]

\* dt.replace(tzinfo=timezone.utc)
replace_utc(dt) == Aware(dt.wall, 0)

\* self.timezone.localize(datetime.combine(d, datetime.min.time())): pytz picks
\* the offset in force at that wall-clock reading (is_dst=False: an ambiguous
\* reading is standard time)
localize_midnight(d) ==
    [wall |-> d.wall, off |-> IF d.wall < Transition THEN SummerOffset ELSE 0]

\* tz_dt.date()
date_of(tz_dt) == PyDate(tz_dt.wall \div SlotsPerDay)

\* tz_dt.isoformat()
isoformat(tz_dt) == <<tz_dt.wall \div SlotsPerDay, tz_dt.wall % SlotsPerDay, tz_dt.off>>

\* the instant an ISO string with offset names
IsoInstant(s) == s[1] * SlotsPerDay + s[2] - s[3]

\* variant: the datetime's own date, without conversion to the zone
_get_event_date_no_conversion(dt) ==
    IF hasattr_date(dt) THEN PyDate(dt.wall \div SlotsPerDay) ELSE dt

_get_event_date(dt) ==
    IF hasattr_date(dt)
    THEN IF hasattr_astimezone(dt)
         THEN date_of(astimezone(dt))
         ELSE date_of(astimezone(replace_utc(dt)))
    ELSE dt

_format_datetime(dt) ==
    IF hasattr_astimezone(dt)
    THEN isoformat(astimezone(dt))
    ELSE isoformat(localize_midnight(dt))

\* dtstart.dt + timedelta(minutes=30): wall-clock arithmetic, tzinfo kept
\* variant: a default duration of 60 minutes
plus_timedelta_60(dt) == [dt EXCEPT !.wall = @ + 2 * ThirtyMinutes]

plus_timedelta(dt) == [dt EXCEPT !.wall = @ + ThirtyMinutes]

\* A VEVENT: has_start/has_end tell whether DTSTART/DTEND are present.
\* Returns <<>> for None, <<event>> otherwise.
_process_event(c, target, calendar_name) ==
    IF ~c.has_start THEN <<>>
    ELSE IF _get_event_date(c.dtstart) # target THEN <<>>
    ELSE LET s_iso == _format_datetime(c.dtstart)
             e_iso == IF c.has_end THEN _format_datetime(c.dtend)
                      ELSE IF hasattr_astimezone(c.dtstart)
                           THEN _format_datetime(plus_timedelta(c.dtstart))
                           ELSE s_iso
         IN <<[summary |-> c.summary, start |-> s_iso, end |-> e_iso,
               calendarSource |-> calendar_name]>>

----------------------------------------------------------------------------
(* NormSpec: the normalization functions applied to one VEVENT *)

RawValues ==
    {PyDate(d) : d \in Days}
    \cup {Aware(w, o) : w \in Walls, o \in SourceOffsets}
    \cup {Naive(w) : w \in Walls}

EndValues == {PyDate(1), Aware(53, 2), Naive(47)}

NoValue == PyDate(0)

NormComponents ==
    {[has_start |-> TRUE, dtstart |-> s, has_end |-> FALSE, dtend |-> NoValue, summary |-> "a"] :
        s \in RawValues}
    \cup {[has_start |-> TRUE, dtstart |-> s, has_end |-> TRUE, dtend |-> e, summary |-> "a"] :
        s \in RawValues, e \in EndValues}
    \cup {[has_start |-> FALSE, dtstart |-> NoValue, has_end |-> he, dtend |-> NoValue, summary |-> "a"] :
        he \in BOOLEAN}

NormInit ==
    /\ host \in HostOffsets
    /\ component \in NormComponents
    /\ target_date \in {PyDate(d) : d \in Days}
    /\ ndone = {}
    /\ event_date = NoValue
    /\ start_iso = <<>>
    /\ result = <<>>
    /\ feed = [f \in 1..NumFeeds |-> <<>>]
    /\ server = [f \in 1..NumFeeds |-> "ok"]
    /\ now = NowStart
    /\ pc = "schedule"
    /\ next_run = 0
    /\ active = 0
    /\ ppc = "idle" /\ i = 1 /\ all_events = <<>>
    /\ file = [kind |-> "absent", events |-> <<>>]
    /\ raised = FALSE /\ log = {}
    /\ pass = <<>> /\ prev = <<>>

GetEventDate ==
    /\ component.has_start
    /\ "date" \notin ndone
    /\ event_date' = _get_event_date(component.dtstart)
    /\ ndone' = ndone \cup {"date"}
    /\ UNCHANGED <<host, component, target_date, start_iso, result, svars>>

FormatDatetime ==
    /\ component.has_start
    /\ "iso" \notin ndone
    /\ start_iso' = _format_datetime(component.dtstart)
    /\ ndone' = ndone \cup {"iso"}
    /\ UNCHANGED <<host, component, target_date, event_date, result, svars>>

ProcessEvent ==
    /\ "event" \notin ndone
    /\ result' = _process_event(component, target_date, "cal")
    /\ ndone' = ndone \cup {"event"}
    /\ UNCHANGED <<host, component, target_date, event_date, start_iso, svars>>

NormNext == GetEventDate \/ FormatDatetime \/ ProcessEvent

NormSpec == NormInit /\ [][NormNext]_vars

----------------------------------------------------------------------------
(* The service: main, process_calendars and what they call *)

Feeds == 1..NumFeeds

\* self.calendars: the feed descriptors in configuration order; a feed's name
\* is its position
calendars == [f \in Feeds |-> [name |-> f, url |-> f]]

\* what a server can do with a request: answer with the calendar, answer
\* with bytes that are no calendar, fail (refused, reset, HTTP error), or
\* accept the request and never answer.  A server answers every request of a
\* behaviour the same way: the feeds are unchanged from one pass to the next.
Modes == {"ok", "garbage", "error", "hang"}

VEvent(s, summary) ==
    [has_start |-> TRUE, dtstart |-> s, has_end |-> FALSE, dtend |-> NoValue, summary |-> summary]
VEventEnd(s, e, summary) ==
    [has_start |-> TRUE, dtstart |-> s, has_end |-> TRUE, dtend |-> e, summary |-> summary]
VEventNoStart ==
    [has_start |-> FALSE, dtstart |-> NoValue, has_end |-> FALSE, dtend |-> NoValue, summary |-> "x"]

\* calendars a URL may serve: day 1 is the day of the zone's change of offset;
\* 01:30+01:00 and 01:00+00:00 of that day are instants 49 and 50
FeedContents ==
    << <<VEvent(Aware(51, 2), "a"), VEventEnd(Aware(45, 0), Aware(49, 0), "y")>>,
       <<VEvent(Aware(50, 0), "b"), VEvent(PyDate(1), "d")>>,
       <<VEventNoStart, VEvent(Naive(60), "n"), VEvent(PyDate(0), "e")>>,
       <<>> >>

FeedConfigs == [Feeds -> {FeedContents[c] : c \in 1..Len(FeedContents)}]

None == <<>>

\* _fetch_ical_data, once urlopen has returned or raised: <<bytes>> or None
_fetch_ical_data(mode, url) ==
    CASE mode = "ok" -> <<[garbage |-> FALSE, comps |-> feed[url]]>>
      [] mode = "garbage" -> <<[garbage |-> TRUE, comps |-> <<>>]>>
      [] OTHER -> None

\* datetime.now(self.timezone).date()
today_at(t) == date_of([wall |-> t + TargetOffset(t), off |-> TargetOffset(t)])

RECURSIVE walk_events(_, _, _)
walk_events(comps, today, calendar_name) ==
    IF comps = <<>> THEN <<>>
    ELSE _process_event(Head(comps), today, calendar_name)
         \o walk_events(Tail(comps), today, calendar_name)

\* _parse_calendar_events at wall-clock time t: Calendar.from_ical raises on
\* bytes that are no calendar and the handler returns []
_parse_calendar_events(ical_data, calendar_name, t) ==
    IF ical_data.garbage THEN <<>>
    ELSE walk_events(ical_data.comps, today_at(t), calendar_name)

\* order of the characters of two UTC offsets "+HH:MM" / "-HH:MM"
OffsetTextKey(o) == IF o >= 0 THEN o ELSE 1000 - o

\* a <= b for two isoformat() strings, as str compares
StrLeq(a, b) ==
    \/ a[1] < b[1]
    \/ a[1] = b[1] /\ a[2] < b[2]
    \/ a[1] = b[1] /\ a[2] = b[2] /\ OffsetTextKey(a[3]) <= OffsetTextKey(b[3])

\* list.sort(key=lambda x: x['start']['dateTime']): stable, by the string
RECURSIVE sort_by_start(_)
sort_by_start(evs) ==
    IF evs = <<>> THEN <<>>
    ELSE LET rest == sort_by_start(SubSeq(evs, 1, Len(evs) - 1))
             e == evs[Len(evs)]
             k == Cardinality({j \in DOMAIN rest : StrLeq(rest[j].start, e.start)})
         IN SubSeq(rest, 1, k) \o <<e>> \o SubSeq(rest, k + 1, Len(rest))

\* the file after the write step: open(..., 'w') raising leaves it alone; once
\* open has returned the file is empty, and json.dump or the close raising
\* leaves the part of the document written so far ("partial": bytes that are
\* a proper prefix of a document, so equal to no document)
\*   written_file(old, evs, outcome)
AbsentFile == [kind |-> "absent", events |-> <<>>]

\* variant: the file is opened for appending
written_file_append(old, evs, outcome) ==
    CASE outcome = "ok" -> [kind |-> "json", events |-> old.events \o evs]
      [] outcome = "open_failed" -> old
      [] OTHER -> [kind |-> "partial", events |-> old.events]

written_file(old, evs, outcome) ==
    CASE outcome = "ok" -> [kind |-> "json", events |-> evs]
      [] outcome = "open_failed" -> old
      [] OTHER -> [kind |-> "partial", events |-> <<>>]

WriteOutcomes == {"ok", "open_failed", "dump_failed"}

NoPass ==
    [done |-> FALSE, file_before |-> AbsentFile,
     outcome |-> [f \in Feeds |-> "none"], today |-> [f \in Feeds |-> -1],
     merged |-> <<>>, write |-> "none"]

NoPrev ==
    [valid |-> FALSE, file |-> AbsentFile, today |-> [f \in Feeds |-> -1], write |-> "none"]

NormIdle ==
    /\ component = VEventNoStart /\ target_date = NoValue /\ ndone = {}
    /\ event_date = NoValue /\ start_iso = <<>> /\ result = <<>>

Init ==
    /\ host \in {0, SummerOffset}
    /\ NormIdle
    /\ feed \in FeedConfigs
    /\ server \in [Feeds -> Modes]
    /\ now = NowStart
    /\ pc = "schedule"
    /\ next_run = 0
    /\ active = 0
    /\ ppc = "idle" /\ i = 1 /\ all_events = <<>>
    /\ file = AbsentFile
    /\ raised = FALSE /\ log = {}
    /\ pass = NoPass /\ prev = NoPrev

\* time passes
Tick ==
    /\ now < MaxNow
    /\ now' = now + 1
    /\ UNCHANGED <<nvars, feed, server, pc, next_run, active, ppc, i, all_events, file, raised, log, pass, prev>>

\* schedule.every(interval_minutes).minutes.do(processor.process_calendars)
Schedule ==
    /\ pc = "schedule"
    /\ next_run' = now + Interval
    /\ pc' = "startup"
    /\ UNCHANGED <<nvars, feed, server, now, active, ppc, i, all_events, file, raised, log, pass, prev>>

\* entry of process_calendars
BeginPass ==
    /\ active' = active + 1
    /\ ppc' = "fetch" /\ i' = 1 /\ all_events' = <<>>
    /\ raised' = FALSE /\ log' = {}
    /\ prev' = IF pass.done
               THEN [valid |-> TRUE, file |-> file, today |-> pass.today, write |-> pass.write]
               ELSE prev
    /\ pass' = [NoPass EXCEPT !.file_before = file]
    /\ UNCHANGED <<nvars, feed, server, now, file>>

\* "Run once immediately"
StartupPass ==
    /\ pc = "startup"
    /\ pc' = "in_startup"
    /\ BeginPass
    /\ UNCHANGED next_run

\* variant: a scheduler that starts the due job on a thread of its own
RunPendingThreaded ==
    /\ pc \in {"pending", "in_job", "in_startup"}
    /\ IF now >= next_run
       THEN /\ pc' = "in_job"
            /\ BeginPass
            /\ next_run' = now + Interval
       ELSE /\ pc = "pending"
            /\ pc' = "sleep"
            /\ UNCHANGED <<nvars, feed, server, now, next_run, active, ppc, i, all_events, file, raised, log, pass, prev>>

\* schedule.run_pending(): runs the job, in this thread, when it is due
RunPending ==
    /\ pc = "pending"
    /\ IF now >= next_run
       THEN /\ pc' = "in_job"
            /\ BeginPass
            /\ UNCHANGED next_run
       ELSE /\ pc' = "sleep"
            /\ UNCHANGED <<nvars, feed, server, now, next_run, active, ppc, i, all_events, file, raised, log, pass, prev>>

\* time.sleep(10)
Sleep ==
    /\ pc = "sleep"
    /\ pc' = "pending"
    /\ UNCHANGED <<nvars, feed, server, now, next_run, active, ppc, i, all_events, file, raised, log, pass, prev>>

\* urllib.request.urlopen(url) is called, with no timeout
FetchBegin ==
    /\ ppc = "fetch" /\ i <= NumFeeds
    /\ ppc' = "wait"
    /\ UNCHANGED <<nvars, feed, server, now, pc, next_run, active, i, all_events, file, raised, log, pass, prev>>

\* variant: an error fetching a feed leaves the loop and process_calendars
FetchReturnAbort ==
    /\ ppc = "wait" /\ server[i] # "hang"
    /\ LET calendar == calendars[i]
           resp == server[calendar.url]
           ical_data == _fetch_ical_data(resp, calendar.url)
           events == IF ical_data = None THEN <<>>
                     ELSE _parse_calendar_events(ical_data[1], calendar.name, now)
       IN /\ all_events' = all_events \o events
          /\ pass' = [pass EXCEPT !.outcome[i] = resp,
                                  !.today[i] = IF resp = "ok" THEN today_at(now).wall \div SlotsPerDay ELSE -1]
          /\ log' = IF resp = "ok" THEN log ELSE log \cup {<<resp, i>>}
          /\ raised' = (resp = "error")
          /\ i' = IF resp = "error" THEN NumFeeds + 1 ELSE i + 1
    /\ ppc' = "fetch"
    /\ UNCHANGED <<nvars, feed, server, now, pc, next_run, active, file, prev>>

\* urlopen returns or raises, and the rest of the loop body runs: None makes
\* the loop continue, bytes are parsed against today's date and the events
\* appended
FetchReturn ==
    /\ ppc = "wait" /\ server[i] # "hang"
    /\ LET calendar == calendars[i]
           resp == server[calendar.url]
           ical_data == _fetch_ical_data(resp, calendar.url)
           events == IF ical_data = None THEN <<>>
                     ELSE _parse_calendar_events(ical_data[1], calendar.name, now)
       IN /\ all_events' = all_events \o events
          /\ pass' = [pass EXCEPT !.outcome[i] = resp,
                                  !.today[i] = IF resp = "ok" THEN today_at(now).wall \div SlotsPerDay ELSE -1]
          /\ log' = IF resp = "ok" THEN log ELSE log \cup {<<resp, i>>}
    /\ i' = i + 1
    /\ ppc' = "fetch"
    /\ UNCHANGED <<nvars, feed, server, now, pc, next_run, active, file, raised, prev>>

\* after the loop: sort, write the file, return to the caller (main's startup
\* call, or the job run by run_pending, which then schedules the next run)
SortAndWrite ==
    /\ ppc = "fetch" /\ i > NumFeeds
    /\ \E w \in WriteOutcomes :
         LET sorted == sort_by_start(all_events) IN
            /\ all_events' = sorted
            /\ file' = written_file(file, sorted, w)
            /\ pass' = [pass EXCEPT !.done = TRUE, !.merged = all_events, !.write = w]
            /\ log' = IF w = "ok" THEN log ELSE log \cup {<<"write", 0>>}
    /\ ppc' = "idle"
    /\ active' = active - 1
    /\ pc' = IF pc = "in_startup" THEN "pending" ELSE "sleep"
    /\ next_run' = IF pc = "in_job" THEN now + Interval ELSE next_run
    /\ UNCHANGED <<nvars, feed, server, now, i, raised, prev>>

Next ==
    \/ Tick
    \/ Schedule
    \/ StartupPass
    \/ RunPending
    \/ Sleep
    \/ FetchBegin
    \/ FetchReturn
    \/ SortAndWrite

Spec == Init /\ [][Next]_vars

\* the interpreter runs the next statement of the program; only a call that
\* is blocked waits
Program == Schedule \/ StartupPass \/ RunPending \/ Sleep \/ FetchBegin \/ FetchReturn \/ SortAndWrite

FairSpec == Init /\ [][Next]_vars /\ WF_vars(Program)

----------------------------------------------------------------------------
(* Properties of the normalization functions (NormSpec) *)

\* the value a datetime reading at instant u takes in the configured zone, as
\* the ISO string with offset
IsoAtInstant(u) ==
    <<(u + TargetOffset(u)) \div SlotsPerDay, (u + TargetOffset(u)) % SlotsPerDay, TargetOffset(u)>>

\* the calendar date in the configured zone of instant u
DateAtInstant(u) == PyDate((u + TargetOffset(u)) \div SlotsPerDay)

Start == component.dtstart
Processed == "event" \in ndone
Retained == Processed /\ result # <<>>

\* C2: a zone-naive DateTime start is read as UTC and converted to the zone,
\* whatever the host's local zone: the comparison date is the zone's date at
\* that UTC instant and the ISO string is the zone's reading of it.
C2_NaiveIsUTC ==
    (component.has_start /\ Start.kind = "naive") =>
        /\ ("date" \in ndone => event_date = DateAtInstant(Start.wall))
        /\ ("iso" \in ndone => start_iso = IsoAtInstant(Start.wall))

\* C2 on a host whose local zone is UTC: there the two readings coincide.
C2_NaiveIsUTC_OnUTCHost == host = 0 => C2_NaiveIsUTC

\* the ISO string the rules of _format_datetime give a value: midnight of the
\* date with the zone's offset there for a date, the zone's reading of the
\* instant for a datetime (the instant astimezone resolves; for a zone-naive
\* value that resolution is the subject of C2)
NormalizedIso(v) ==
    IF v.kind = "date"
    THEN <<v.wall \div SlotsPerDay, 0, IF v.wall < Transition THEN SummerOffset ELSE 0>>
    ELSE IsoAtInstant(InstantOf(v))

ComparisonDate(v) == IF v.kind = "date" THEN v ELSE DateAtInstant(InstantOf(v))

----------------------------------------------------------------------------
(* Properties of the service (Spec, FairSpec) *)

Range(q) == {q[j] : j \in DOMAIN q}
Count(q, e) == Cardinality({j \in DOMAIN q : q[j] = e})
FromFeed(q, f) == SelectSeq(q, LAMBDA e : e.calendarSource = f)

Wrote == pass.done /\ pass.write = "ok"
Failed(f) == pass.outcome[f] \in {"error", "garbage"}
Parsed(f) == pass.outcome[f] = "ok"

\* the events a feed's calendar yields for the date it was parsed under
RetainedFrom(f) == walk_events(feed[f], PyDate(pass.today[f]), f)

\* C1: no exception leaves process_calendars, and in the array a pass writes a
\* feed whose fetch or parse failed has no event while every event retained
\* from a feed that did not fail is there, as often as the feed has it,
\* wherever the failing feeds stand in the configuration.
C1_FailedFeedsIsolated ==
    /\ ~raised
    /\ Wrote =>
         \A f \in Feeds :
            /\ Failed(f) => FromFeed(file.events, f) = <<>>
            /\ Parsed(f) =>
                 /\ Len(FromFeed(file.events, f)) = Len(RetainedFrom(f))
                 /\ \A e \in Range(RetainedFrom(f)) :
                       Count(file.events, e) = Count(RetainedFrom(f), e)

\* C1 witness: a pass wrote its array after the fetch of the first feed
\* failed, and events of a later feed are in it
C1_Witness ==
    /\ Wrote /\ pass.outcome[1] = "error"
    /\ \E f \in Feeds : f > 1 /\ Parsed(f) /\ FromFeed(file.events, f) # <<>>
    /\ <<"error", 1>> \in log

\* every feed parsed in the pass was parsed under the same date
OneToday == \A f, g \in Feeds : (Parsed(f) /\ Parsed(g)) => pass.today[f] = pass.today[g]

IsPermutation(a, b) ==
    /\ Len(a) = Len(b)
    /\ \A e \in Range(a) \cup Range(b) : Count(a, e) = Count(b, e)

\* events of equal start stand in a as they stand in b
SameOrderOfEqualStarts(a, b) ==
    \A e \in Range(b) :
        SelectSeq(a, LAMBDA x : x.start = e.start) = SelectSeq(b, LAMBDA x : x.start = e.start)

\* C5: the array written is a permutation of the feeds' retained events taken
\* in configuration order, in non-decreasing order of start instant, events of
\* equal start in their order of concatenation; stated for passes whose feeds
\* were all parsed under one date.
C5_SortedByInstant ==
    (Wrote /\ OneToday) =>
        /\ IsPermutation(file.events, pass.merged)
        /\ \A j, k \in DOMAIN file.events :
              j < k => IsoInstant(file.events[j].start) <= IsoInstant(file.events[k].start)
        /\ SameOrderOfEqualStarts(file.events, pass.merged)

\* C5, as the code has it: the same with the order of the ISO strings in
\* place of the order of the instants
C5_SortedByString ==
    Wrote =>
        /\ IsPermutation(file.events, pass.merged)
        /\ \A j, k \in DOMAIN file.events :
              j < k => StrLeq(file.events[j].start, file.events[k].start)
        /\ SameOrderOfEqualStarts(file.events, pass.merged)

TwoPassesWrote == Wrote /\ prev.valid /\ prev.write = "ok"

C7_FailedWriteKeepsFile ==
    (pass.done /\ pass.write # "ok") =>
        /\ <<"write", 0>> \in log
        /\ ~raised
        /\ file = pass.file_before

\* C7, the part that holds: the same when open is what fails
C7_FailedOpenKeepsFile ==
    (pass.done /\ pass.write = "open_failed") =>
        /\ <<"write", 0>> \in log
        /\ ~raised
        /\ file = pass.file_before

\* C8: at most one execution of process_calendars is in progress.
C8_NoOverlap == active <= 1

\* C8 witness: the startup pass is still in progress when the job is due
C8_Witness == active = 1 /\ pc = "in_startup" /\ ppc = "wait" /\ now >= next_run

\* C9: every pass that has started reaches the end of its write step, a
\* server that never answers notwithstanding.
C9_PassCompletes == (ppc # "idle") ~> pass.done

\* C10: the feeds of a pass being filtered against one date, the starts of
\* the array the pass writes all fall on one and the same date in the zone.
C10_OneTargetDate ==
    Wrote =>
        \A j, k \in DOMAIN file.events : file.events[j].start[1] = file.events[k].start[1]

\* C10, its premise alone: the feeds parsed in a pass were parsed under one
\* date (fails with the clock passing midnight between two feeds)
C10_OneToday == pass.done => OneToday

====
